---- MODULE Spec2Model ----
(***************************************************************************)
(* Model of the JIT pooling kernel builder, src/gpu/jit/pooling/           *)
(* ir_builder.cpp: the retry driver pooling_ir_builder_t::build() with     *)
(* reduce_dim(), the outcome of one try_build() attempt, and the semantics *)
(* of the program try_build() generates (batch guard, reduction identity,  *)
(* average divisor).                                                       *)
(***************************************************************************)
EXTENDS Integers, Sequences, FiniteSets, TLC

VARIABLES
    pc,        \* position of build(): Attempting, Infeasible, Done, Fatal, Aborted
    lg,        \* cfg_mutable_.loop_grid(),   indices 0..7 (mb oc od oh ow kd kh kw)
    kg,        \* cfg_mutable_.kernel_grid(), indices 0..2
    tg,        \* cfg.thread_group_grid(),    indices 0..2
    simd,      \* cfg.exec_cfg().simd()
    kdims,     \* conf.kd, conf.kh, conf.kw: the bounds of the window variables, indices 5..7
    ndims,     \* <<src_layout.ndims(), dst_layout.ndims()>>
    regs,      \* get_peak_regs() of the last attempt
    stmt,      \* stmt_: "empty" or "kernel"
    ndRange,   \* ki_mutable_.nd_range(): [global, local]
    shrinkLog, \* history: the axes build() has shrunk so far, in order (first MaxLog)
    lastShrink, \* history: the last shrink, [axis, dn, up, scale] before it (axis -1: none)
    ir_assert_on, \* the build: ir_assert / ir_error_not_expected compiled in (TRUE) or out
    alg,       \* conf.alg: "max", "avg_include_padding", "avg_exclude_padding"
    conf_mb,   \* conf.mb, the true batch extent
    dims0,     \* dims[0], the padded batch extent
    thr,       \* what one thread of the generated kernel did: [g, mb, ow, branch, written, ran]
    dtype,     \* read_layout.type().kind(), the source element type
    ax,        \* per spatial axis 2..4 (d, h, w): [i, k, s, p, d, o] of conf
    out,       \* what the generated body computed for one output position
    md,        \* memory descriptor given to create_view: [dims, padded_dims], axes from 0
    cp_view,   \* the main (destination) view: [tdims, tmask] over the canonical axes
    ndims_,    \* pooling_post_op_view_mapper_t::ndims_
    view,      \* result of create_view(md): [dims, pad_dims, mask, kind]
    nmask,     \* result of normalize_mask: [orig, kind, cvt, mask]
    dims,      \* cfg.dims_padded(), axes 0..4 (mb oc od oh ow)
    conf_o,    \* conf.od, conf.oh, conf.ow: the true output extents, axes 2..4
    mb_blocked, \* src_layout.blocks()[1].dim_idx == 0
    sched,     \* the gemm_schedule_t of the attempt: [v, binds]
    spc,       \* position in try_build: views, odhw, final, error
    work       \* what one thread did at the exit guard: [coord, guards, runs]

driverVars == <<pc, lg, kg, tg, simd, kdims, ndims, regs, stmt, ndRange,
                shrinkLog, lastShrink, ir_assert_on>>
batchVars == <<alg, conf_mb, dims0, thr>>
poolVars == <<dtype, ax, out>>
viewVars == <<md, cp_view, ndims_, view, nmask>>
schedVars == <<dims, conf_o, mb_blocked, sched, spc, work>>
vars == <<driverVars, batchVars, poolVars, viewVars, schedVars>>

(***************************************************************************)
(* Bounds of the model.                                                    *)
(***************************************************************************)
MaxLg0 == 6          \* lg[0] starts in 1..MaxLg0 (and LargeDims)
MaxVec == 4          \* lg[1] starts as simd * m, m in 1..MaxVec (and LargeDims)
ExecRegs == 1        \* exec.regs(), the register budget
MaxLog == 8          \* length of the shrink history (more than any run needs)
MaxMb == 4           \* conf.mb in 1..MaxMb
MaxTile == 3         \* lg[0] of the batch guard in 1..MaxTile
MaxI == 2            \* input extent of the d axis in 1..MaxI
MaxK == 2            \* window extent of the d axis in 1..MaxK
MaxPad == 2          \* left and right padding of the d axis in 0..MaxPad
MaxNdims == 5        \* ndims_ of the view mapper in 3..MaxNdims
MaxOutPad == 1       \* dims[x] - conf.o[x] in 0..MaxOutPad for the spatial axes
MaxOw == 2           \* conf.ow of the batch guard in 1..MaxOw
Strides == {1, 2}
Dilations == {0, 1}
\* an extent with no prime factor in the list of reduce_dim
LargeDims == {37}
SimdSet == {2, 8}
KExtents == {1, 2}

Lg0Set == (1..MaxLg0) \cup LargeDims
VecMults == (1..MaxVec) \cup LargeDims
RegEstimates == 0..(ExecRegs + 1)

(***************************************************************************)
(* reduce_dim, ir_builder.cpp:120-129.                                     *)
(***************************************************************************)
Primes == <<2, 3, 5, 7, 11, 13, 17, 19, 23, 29, 31>>

RECURSIVE reduce_dim_from(_, _, _, _)
reduce_dim_from(j, dn, up, scale) ==
    IF j > Len(Primes)
    THEN [dn |-> scale, up |-> up * (dn \div scale)]
    ELSE IF dn % (Primes[j] * scale) = 0
         THEN [dn |-> dn \div Primes[j], up |-> up * Primes[j]]
         ELSE reduce_dim_from(j + 1, dn, up, scale)

\* mutant: the tail of reduce_dim (lines 127-128) left out
reduce_dim_no_tail(dn, up, scale) ==
    LET r == reduce_dim_from(1, dn, up, scale)
    IN IF \E j \in 1..Len(Primes) : dn % (Primes[j] * scale) = 0
       THEN r ELSE [dn |-> dn, up |-> up]

\* mutant: the scale left out of the divisibility test (dn % p == 0)
reduce_dim_unscaled(dn, up, scale) ==
    LET r == reduce_dim_from(1, dn, up, 1)
    IN IF \E j \in 1..Len(Primes) : dn % Primes[j] = 0
       THEN r ELSE [dn |-> scale, up |-> up * (dn \div scale)]

\* mutant: the peeled factor added to up, not multiplied into it
reduce_dim_add(dn, up, scale) ==
    LET r == reduce_dim_from(1, dn, up, scale)
    IN [dn |-> r.dn, up |-> up + (dn \div r.dn)]

reduce_dim(dn, up, scale) == reduce_dim_from(1, dn, up, scale)

(***************************************************************************)
(* nd_range, ir_builder.cpp:580-590.                                       *)
(***************************************************************************)
\* mutant: the vector width left out of the first local size
nd_range_unscaled(k, t, s) ==
    [global |-> [i \in 0..2 |-> k[i] * t[i]], local |-> t]

nd_range(k, t, s) ==
    LET local == [i \in 0..2 |-> IF i = 0 THEN t[0] * s ELSE t[i]]
    IN [global |-> [i \in 0..2 |-> k[i] * local[i]], local |-> local]

(***************************************************************************)
(* One attempt, try_build: the configuration checks and the final          *)
(* feasibility test.                                                       *)
(***************************************************************************)
\* ir_assert(src_layout.ndims() == dst_layout.ndims()), line 174
RankMismatch(nd) == nd[1] # nd[2]

\* kdhw_to_schedule, lines 347-363: "tensorize", "split", "none" or "error"
kdhw_to_schedule(k_dim, var_bound) ==
    IF k_dim = var_bound THEN "tensorize"
    ELSE IF k_dim < var_bound
         THEN (IF k_dim > 1 THEN "split" ELSE "none")
         ELSE "error"

DTypes == {"f32", "s32", "s16", "s8", "u8"}

\* stands for -INFINITY: below every value an f32 element takes here
NegInf == -1000000

is_int(t) == t # "f32"
is_signed(t) == t # "u8"
type_size(t) == IF t \in {"f32", "s32"} THEN 4 ELSE IF t = "s16" THEN 2 ELSE 1

\* lines 426-430: acc_type.scalar().size(); the accumulator is the read type
\* for a floating max, f32 for a floating average, s32 for the integers
acc_sc_size(t, al) ==
    IF ~is_int(t) THEN (IF al = "max" THEN type_size(t) ELSE type_size("f32"))
    ELSE type_size("s32")

\* line 431
acc_size(l, t, al) == acc_sc_size(t, al) * l[4] * l[3] * l[2] * l[1] * l[0]

\* lines 419, 435-440: ir_assert(acc_size % simd == 0) on the path with a
\* window of more than one element
AccSizeError(l, kd, s, t, al) ==
    kd[5] * kd[6] * kd[7] > 1 /\ acc_size(l, t, al) % s # 0

\* lines 414-417: the read and write layouts are cut into their largest tiles
\* of at most simd elements along the vectorized (innermost) axis, and
\* ir_assert(src_tile.elems() == simd), ir_assert(dst_tile.elems() == simd):
\* a tile of exactly simd elements exists only when simd divides lg[1]
TileError(l, s) == l[1] % s # 0

\* a check of the attempt fails: lines 174, 361, 416-417, 440
ConfigError(l, kd, nd, s, t, al) ==
    \/ RankMismatch(nd)
    \/ \E k \in 5..7 : kdhw_to_schedule(l[k], kd[k]) = "error"
    \/ TileError(l, s)
    \/ AccSizeError(l, kd, s, t, al)

\* mutant: the register test with >= for >
is_infeasible_ge(r, budget) == r >= budget

\* line 577: (regs > exec.regs()) ? stmt_t() : stmt
is_infeasible(r, budget) == r > budget

\* mutant: a configuration error reported as an empty result
try_build_swallow(l, kd, nd, s, t, al, r, a) ==
    IF ConfigError(l, kd, nd, s, t, al) /\ a THEN "empty"
    ELSE IF is_infeasible(r, ExecRegs) THEN "empty" ELSE "kernel"

\* the outcome of try_build: "throw", "empty" or "kernel".  A failed check
\* (lines 174, 361, 416-417, 440) throws where the assertions are compiled in (a); where they
\* are compiled out it is a statement without effect and the attempt goes on
try_build(l, kd, nd, s, t, al, r, a) ==
    IF ConfigError(l, kd, nd, s, t, al) /\ a THEN "throw"
    ELSE IF is_infeasible(r, ExecRegs) THEN "empty" ELSE "kernel"

(***************************************************************************)
(* The loop body of build(), lines 134-146.                                *)
(***************************************************************************)
\* mutant: the vectorized axis tested with > 2
shrink_choice_late(l, s) ==
    IF l[0] > 1 THEN "first"
    ELSE IF l[1] \div s > 2 THEN "vec"
    ELSE "fatal"

\* mutant: the two tests in the other order
shrink_choice_swapped(l, s) ==
    IF l[1] \div s > 1 THEN "vec"
    ELSE IF l[0] > 1 THEN "first"
    ELSE "fatal"

\* lines 137-142: which branch the loop body takes
shrink_choice(l, s) ==
    IF l[0] > 1 THEN "first"
    ELSE IF l[1] \div s > 1 THEN "vec"
    ELSE "fatal"

\* the history keeps the first MaxLog shrinks
Logged(log, a) == IF Len(log) < MaxLog THEN Append(log, a) ELSE log

NoShrink == [axis |-> -1, dn |-> 0, up |-> 0, scale |-> 0]

DriverInit ==
    /\ pc = "Attempting"
    /\ simd \in SimdSet
    /\ \E l0 \in Lg0Set, m \in VecMults, kk \in [5..7 -> KExtents] :
          lg = [i \in 0..7 |-> IF i = 0 THEN l0
                               ELSE IF i = 1 THEN simd * m
                               ELSE IF i >= 5 THEN kk[i] ELSE 1]
    /\ kdims \in [5..7 -> KExtents]
    /\ \E g \in {<<1, 1, 1, 1, 1, 1>>, <<2, 3, 5, 2, 1, 3>>} :
          /\ kg = [i \in 0..2 |-> g[i + 1]]
          /\ tg = [i \in 0..2 |-> g[i + 4]]
    /\ ndims \in {<<5, 5>>, <<5, 4>>}
    /\ regs = 0
    /\ stmt = "empty"
    /\ ndRange = nd_range(kg, tg, simd)
    /\ shrinkLog = <<>>
    /\ lastShrink = NoShrink
    /\ ir_assert_on \in BOOLEAN

\* the loop condition of build(), line 132: one call of try_build
Attempt ==
    /\ pc = "Attempting"
    /\ \E r \in RegEstimates :
          LET outcome == try_build(lg, kdims, ndims, simd, dtype, alg, r, ir_assert_on)
          IN /\ regs' = IF outcome = "throw" THEN regs ELSE r
             /\ stmt' = IF outcome = "kernel" THEN "kernel"
                        ELSE IF outcome = "empty" THEN "empty" ELSE stmt
             /\ pc' = IF outcome = "throw" THEN "Aborted"
                      ELSE IF outcome = "empty" THEN "Infeasible" ELSE "Done"
    /\ UNCHANGED <<lg, kg, tg, simd, kdims, ndims, ndRange, shrinkLog, lastShrink,
                   ir_assert_on>>

\* lines 137-138 and 144-146
ShrinkFirst ==
    /\ pc = "Infeasible"
    /\ shrink_choice(lg, simd) = "first"
    /\ LET r == reduce_dim(lg[0], kg[1], 1)
       IN /\ lg' = [lg EXCEPT ![0] = r.dn]
          /\ kg' = [kg EXCEPT ![1] = r.up]
          /\ lastShrink' = [axis |-> 0, dn |-> lg[0], up |-> kg[1], scale |-> 1]
    /\ ndRange' = nd_range(kg', tg, simd)
    /\ shrinkLog' = Logged(shrinkLog, 0)
    /\ pc' = "Attempting"
    /\ UNCHANGED <<tg, simd, kdims, ndims, regs, stmt, ir_assert_on>>

\* lines 139-140 and 144-146
ShrinkVec ==
    /\ pc = "Infeasible"
    /\ shrink_choice(lg, simd) = "vec"
    /\ LET r == reduce_dim(lg[1], kg[0], simd)
       IN /\ lg' = [lg EXCEPT ![1] = r.dn]
          /\ kg' = [kg EXCEPT ![0] = r.up]
          /\ lastShrink' = [axis |-> 1, dn |-> lg[1], up |-> kg[0], scale |-> simd]
    /\ ndRange' = nd_range(kg', tg, simd)
    /\ shrinkLog' = Logged(shrinkLog, 1)
    /\ pc' = "Attempting"
    /\ UNCHANGED <<tg, simd, kdims, ndims, regs, stmt, ir_assert_on>>

\* lines 141-146: ir_error_not_expected() << "minimal loop_grid too large!".
\* Where the assertions are compiled in it ends build(); where they are
\* compiled out line 142 has no effect, lines 144-146 store the grids as
\* they are and the loop calls try_build again
FatalTooLarge ==
    /\ pc = "Infeasible"
    /\ shrink_choice(lg, simd) = "fatal"
    /\ IF ir_assert_on
       THEN /\ pc' = "Fatal"
            /\ UNCHANGED <<lg, kg, ndRange>>
       ELSE /\ lg' = lg
            /\ kg' = kg
            /\ ndRange' = nd_range(kg', tg, simd)
            /\ pc' = "Attempting"
    /\ UNCHANGED <<tg, simd, kdims, ndims, regs, stmt, shrinkLog, lastShrink,
                   ir_assert_on>>

DriverNext == Attempt \/ ShrinkFirst \/ ShrinkVec \/ FatalTooLarge


(***************************************************************************)
(* The batch guard of the generated program, lines 534-543, run by the     *)
(* thread with kernel-grid index g on the mb axis.                         *)
(***************************************************************************)
Algs == {"max", "avg_include_padding", "avg_exclude_padding"}

div_up(a, b) == (a + b - 1) \div b

\* schedule.split(ns, ns_unroll, ns_kg, ns_lg), line 331, for ns = mb:
\* the bound of mb_kg (outer = ceil(bound / factor)); mb_lg is tensorized
mb_kg_bound(d0, l0) == div_up(d0, l0)

\* mb = schedule.expand(mb, true, serial | kernel_grid | tg_grid), line 372:
\* the tensorized mb_lg is no coordinate of these kinds and expands to 0
expand_mb(g, l0) == g * l0 + 0

\* line 534: the guard is generated at all
has_batch_guard(d0, mb) == d0 > mb

\* mutant: the guard compares with > for >=
stop_cond_gt(mb, c_mb) == mb > c_mb

\* line 541: stop_cond = (mb >= conf.mb)
stop_cond(mb, c_mb) == mb >= c_mb

\* line 542: if_t::make(stop_cond, stop.append(write.stmt()), stmt)
batch_branch(d0, c_mb, mb) ==
    IF has_batch_guard(d0, c_mb) /\ stop_cond(mb, c_mb) THEN "stop" ELSE "body"

\* the batch indices of the tile of the thread whose expanded mb is base
Tile(base, l0) == base..(base + l0 - 1)

(***************************************************************************)
(* The body of the generated program for one output position (od, oh, ow): *)
(* accumulator and read-buffer initialisation, masked loads, reduction and *)
(* normalisation, lines 419-523.  The spatial loop-grid components are 1   *)
(* here (the accumulator is indexed by mb and oc only, line 488), so the   *)
(* expanded od, oh, ow are the output coordinates themselves.              *)
(***************************************************************************)
Min2(a, b) == IF a < b THEN a ELSE b
Max2(a, b) == IF a > b THEN a ELSE b

\* utils::need_src_or_dst_check for the forward direction, used at lines 189-194
need_src_or_dst_check(o, i, k, p, s, d) ==
    LET i_min == -p
        i_max == (o - 1) * s - p + (k - 1) * (1 + d)
    IN (i_min < 0) \/ (i_max >= i)

check_axis(c) == need_src_or_dst_check(c.o, c.i, c.k, c.p, c.s, c.d)

\* line 195
check_idhw(a) == check_axis(a[2]) \/ check_axis(a[3]) \/ check_axis(a[4])

\* lines 225-230: the source coordinate of window tap kk at output coordinate o
tdim(o, kk, c) == o * c.s - c.p + kk * (1 + c.d)

\* lines 200-202: the mask of an axis, empty when the axis needs no check
mask_ok(c, x) == check_axis(c) => (x >= 0 /\ x < c.i)

\* line 419
is_identity(a) == a[2].k * a[3].k * a[4].k <= 1

\* 32-bit words are kept as their four bytes, least significant first
\* (0x80000000 is <<0, 0, 0, 128>>); word_elem reads element j of the word
\* back in type t, two's complement for the signed types
Pow256(n) == IF n = 0 THEN 1 ELSE IF n = 1 THEN 256 ELSE IF n = 2 THEN 65536
             ELSE 16777216

word_elem(w, t, j) ==
    LET n == type_size(t)
        byte(b) == w[j * n + b + 1]
        top == IF is_signed(t) /\ byte(n - 1) >= 128
               THEN byte(n - 1) - 256 ELSE byte(n - 1)
        low == IF n = 1 THEN 0
               ELSE IF n = 2 THEN byte(0)
               ELSE byte(0) + 256 * byte(1) + 65536 * byte(2)
    IN top * Pow256(n - 1) + low

\* lines 445-468: the value every accumulator lane starts with; the integer
\* accumulator is s32 and starts from 0x80000000 or 0
acc_init(t, is_max) ==
    IF ~is_int(t) THEN (IF is_max THEN NegInf ELSE 0)
    ELSE word_elem(IF is_max /\ is_signed(t) THEN <<0, 0, 0, 128>>
                   ELSE <<0, 0, 0, 0>>, "s32", 0)

\* lines 470-476: the 32-bit word the read buffer is filled with
v_init(mult, is_neg) ==
    IF ~is_neg THEN <<0, 0, 0, 0>>
    ELSE IF mult = 1 THEN <<0, 0, 0, 128>>
    ELSE IF mult = 2 THEN <<0, 128, 0, 128>>
    ELSE <<128, 128, 128, 128>>

\* line 461: the elements of the read type in a 32-bit word
mult(t) == type_size("s32") \div type_size(t)

\* the lanes of a tile of s elements that the store of fill_stmt writes: the
\* floating fill is a broadcast over simd (lines 446-457), the integer one a
\* broadcast of the word v_init over simd / mult words (line 477)
fill_lanes(t, s) == IF ~is_int(t) THEN s ELSE (s \div mult(t)) * mult(t)

\* lines 445-484: lane j of a tile of the read buffer after the store of
\* fill_stmt, held being what the lane held before it
fill_elem(t, is_max, s, j, held) ==
    IF j >= fill_lanes(t, s) THEN held
    ELSE IF ~is_int(t) THEN (IF is_max THEN NegInf ELSE 0)
    ELSE word_elem(v_init(mult(t), is_max /\ is_signed(t)), t, j % mult(t))

\* lines 505-509: the per-axis overlap of the padding-exclusive average
dim(o, s, p, k, i) ==
    IF k <= 1 THEN 1 ELSE Min2(o * s - p + k, i) - Max2(o * s - p, 0)

\* lines 503-514: the divisor of the average
filter(a, al, pos) ==
    IF al = "avg_exclude_padding" /\ check_idhw(a)
    THEN dim(pos[2], a[2].s, a[2].p, a[2].k, a[2].i)
           * dim(pos[3], a[3].s, a[3].p, a[3].k, a[3].i)
           * dim(pos[4], a[4].s, a[4].p, a[4].k, a[4].i)
    ELSE a[2].k * a[3].k * a[4].k

Taps(a) == {tp \in [2..4 -> 0..(MaxK - 1)] : \A x \in 2..4 : tp[x] < a[x].k}

\* the masked load brings the tap's element in (the masks of all axes pass)
tap_loaded(a, pos, tp) == \A x \in 2..4 : mask_ok(a[x], tdim(pos[x], tp[x], a[x]))

\* lane j of the read buffer before a load: the fill when fill_stmt is part
\* of the loop body (line 500), else what the lane held (the buffer, lines
\* 396-403, is created with zero_out = false; a masked load leaves it alone)
read_buf_before_load(a, t, is_max, s, j, held) ==
    IF ~is_identity(a) /\ check_idhw(a) THEN fill_elem(t, is_max, s, j, held)
    ELSE held

\* the nesting of the window loops of schedule.create_loop_nest, line 499:
\* <<outer, middle, inner>> over the axes d, h, w; each loop runs upwards.
\* An axis with a window of one element has a single iteration, so it is
\* listed outermost and only the axes with a longer window are permuted
LoopOrders(a) ==
    {ord \in [1..3 -> 2..4] :
        /\ \A m, n \in 1..3 : m # n => ord[m] # ord[n]
        /\ \A m, n \in 1..3 :
              (m < n /\ a[ord[n]].k <= 1) => (a[ord[m]].k <= 1 /\ ord[m] < ord[n])}

tap_rank(tp, ord) == (tp[ord[1]] * MaxK + tp[ord[2]]) * MaxK + tp[ord[3]]

\* some tap of L, the taps that the load brings in, runs before the tap tp
loaded_before(L, tp, ord) == \E q \in L : tap_rank(q, ord) < tap_rank(tp, ord)

\* lines 435-523 for the output position pos and lane j of the tile; v is the
\* value of the source elements, garbage the stale content of the registers
\* of the read buffer; a masked-out tap leaves in its lane what the lane held:
\* the fill, else the element of an earlier tap, else the stale content; oob
\* holds what the lanes of the masked-out taps hand to the consumer
kernel_body(a, al, t, s, j, ord, pos, v, garbage) ==
    LET is_max == al = "max"
        h_new == read_buf_before_load(a, t, is_max, s, j, garbage)
        h_old == read_buf_before_load(a, t, is_max, s, j, v)
        L == {tp \in Taps(a) : tap_loaded(a, pos, tp)}
        n_in == Cardinality(L)
        n_out == Cardinality(Taps(a)) - n_in
        n_after == Cardinality({tp \in Taps(a) \ L : loaded_before(L, tp, ord)})
        n_before == n_out - n_after
        handed == (IF n_before > 0 THEN {h_new} ELSE {})
                     \cup (IF n_after > 0 THEN {h_old} ELSE {})
    IN IF is_identity(a)
       THEN [pos |-> pos, path |-> "identity",
             acc |-> IF n_in = 1 THEN v ELSE h_new, filter |-> 1,
             oob |-> handed]
       ELSE LET a0 == acc_init(t, is_max)
                red == IF is_max
                       THEN Max2(Max2(a0, IF n_in > 0 THEN v ELSE a0),
                                 Max2(IF n_before > 0 THEN h_new ELSE a0,
                                      IF n_after > 0 THEN h_old ELSE a0))
                       ELSE a0 + n_in * v + n_before * h_new + n_after * h_old
            IN [pos |-> pos, path |-> "reduce", acc |-> red,
                filter |-> IF is_max THEN 1 ELSE filter(a, al, pos),
                oob |-> handed]

\* the dilated extent of the window
ker_range(c) == 1 + (c.k - 1) * (c.d + 1)

\* the axis descriptions a pooling descriptor admits: the output extent follows
\* from the input, window, stride and paddings, and the padding-exclusive
\* average admits no window that may lie wholly in the padding
valid_axis(c, al) ==
    \E pr \in 0..MaxPad :
        /\ c.i - ker_range(c) + c.p + pr >= 0
        /\ c.o = (c.i - ker_range(c) + c.p + pr) \div c.s + 1
        /\ al = "avg_exclude_padding" =>
              c.p < ker_range(c) /\ pr < ker_range(c) /\ c.d < c.i

AxisConfs(al) ==
    {c \in [i : 1..MaxI, k : 1..MaxK, s : Strides, p : 0..MaxPad,
            d : Dilations, o : 1..(MaxI + 2 * MaxPad)] : valid_axis(c, al)}

\* the h and w axes: no window, or a 2-window with a padding of 1 on each side
SmallAxisConfs ==
    {[i |-> 1, k |-> 1, s |-> 1, p |-> 0, d |-> 0, o |-> 1],
     [i |-> 2, k |-> 2, s |-> 1, p |-> 1, d |-> 0, o |-> 3]}

(***************************************************************************)
(* pooling_post_op_view_mapper_t, lines 46-118.  Extents are functions     *)
(* over the axes 0..n-1, masks are the integers the code keeps (bit i of   *)
(* the mask is axis i).                                                    *)
(***************************************************************************)
\* cp_view().nvdims() of the destination view {mb, oc, od, oh, ow}, line 235
cp_ndims == 5

\* line 103
mask_set_value == 2

\* 1 << i
RECURSIVE Pow2(_)
Pow2(i) == IF i = 0 THEN 1 ELSE 2 * Pow2(i - 1)

\* (mask & (1 << i)) != 0
has_bit(mask, i) == (mask \div Pow2(i)) % 2 = 1

\* mask | (1 << i)
or_bit(mask, i) == IF has_bit(mask, i) THEN mask ELSE mask + Pow2(i)

Rank(d) == Cardinality(DOMAIN d)

RECURSIVE ProductOver(_, _)
ProductOver(d, S) ==
    IF S = {} THEN 1
    ELSE LET k == CHOOSE k \in S : TRUE IN d[k] * ProductOver(d, S \ {k})

\* the canonical axis that spatials_to_3d gives axis k of n: the two leading
\* axes stay, up to three spatial axes are aligned to the right of the three
\* canonical ones; the ways a longer shape may collapse:
\*   "right": right alignment throughout, the surplus falls on the leading axes
\*   "lead":  the surplus leading spatial axes fall on the first spatial axis
\*   "tail":  the surplus trailing axes fall on the last canonical axis
Reductions == {"right", "lead", "tail"}

to_3d(k, n, kind) ==
    IF k < 2 THEN k
    ELSE IF n <= cp_ndims \/ kind = "right" THEN cp_ndims - (n - k)
    ELSE IF kind = "lead" THEN Max2(2, cp_ndims - (n - k))
    ELSE Min2(k, cp_ndims - 1)

\* spatials_to_3d(layout, false, 0).dims(): the layout keeps its elements, so
\* the extents of the axes that fall on one canonical axis multiply
spatials_to_3d(d, kind) ==
    [i \in 0..(cp_ndims - 1) |->
        ProductOver(d, {k \in DOMAIN d : to_3d(k, Rank(d), kind) = i})]

\* lines 92-95
dims_to_3d(d, kind) == spatials_to_3d(d, kind)

\* lines 81-90: dims.resize(ndims, 1) when the layout has fewer axes
maybe_reshape_dims(nd, d) ==
    IF Rank(d) < nd
    THEN [k \in 0..(nd - 1) |-> IF k \in DOMAIN d THEN d[k] ELSE 1]
    ELSE d

\* mutant: the broadcast test (line 68) left out
RECURSIVE bound_check_mask_no_skip(_, _, _, _, _)
bound_check_mask_no_skip(i, cdims, pad_dims, cp, mask) ==
    IF i >= cp_ndims THEN mask
    ELSE IF pad_dims[i] # cp.tdims[i] \/ i \in cp.tmask
         THEN bound_check_mask_no_skip(i + 1, cdims, pad_dims, cp, or_bit(mask, i))
         ELSE bound_check_mask_no_skip(i + 1, cdims, pad_dims, cp, mask)

\* lines 66-74: the loop from axis i on
RECURSIVE bound_check_mask(_, _, _, _, _)
bound_check_mask(i, cdims, pad_dims, cp, mask) ==
    IF i >= cp_ndims THEN mask
    ELSE IF cdims[i] = 1
         THEN bound_check_mask(i + 1, cdims, pad_dims, cp, mask)
    ELSE IF pad_dims[i] # cp.tdims[i]
         THEN bound_check_mask(i + 1, cdims, pad_dims, cp, or_bit(mask, i))
    ELSE IF i \in cp.tmask
         THEN bound_check_mask(i + 1, cdims, pad_dims, cp, or_bit(mask, i))
    ELSE bound_check_mask(i + 1, cdims, pad_dims, cp, mask)

\* lines 55-76
create_view(m, nd, cp, kind) ==
    LET cdims == dims_to_3d(maybe_reshape_dims(nd, m.dims), kind)
        pad_dims == dims_to_3d(maybe_reshape_dims(nd, m.padded_dims), kind)
    IN [dims |-> cdims, pad_dims |-> pad_dims, kind |-> kind,
        mask |-> bound_check_mask(0, cdims, pad_dims, cp, 0)]

\* lines 102-106
dummy_dims(orig_mask, orig_ndims) ==
    [i \in 0..(orig_ndims - 1) |->
        IF has_bit(orig_mask, i) THEN mask_set_value ELSE 1]

\* mutant: every canonical axis with an extent other than 1 selected
RECURSIVE cvt_mask_any(_, _, _)
cvt_mask_any(i, cvt_dims, mask) ==
    IF i >= cp_ndims THEN mask
    ELSE cvt_mask_any(i + 1, cvt_dims,
                      IF cvt_dims[i] # 1 THEN or_bit(mask, i) ELSE mask)

\* lines 110-113: the loop from axis i on
RECURSIVE cvt_mask(_, _, _)
cvt_mask(i, cvt_dims, mask) ==
    IF i >= cp_ndims THEN mask
    ELSE cvt_mask(i + 1, cvt_dims,
                  IF cvt_dims[i] = mask_set_value THEN or_bit(mask, i) ELSE mask)

\* lines 97-115
normalize_mask(orig_mask, nd, kind) ==
    LET orig_ndims == 2 + nd
        cvt_dims == dims_to_3d(dummy_dims(orig_mask, orig_ndims), kind)
    IN [orig |-> orig_mask, kind |-> kind, cvt |-> cvt_dims,
        mask |-> cvt_mask(0, cvt_dims, 0)]

(***************************************************************************)
(* The schedule try_build issues, lines 253-368.  A variable is named by   *)
(* its root and its suffix ("od", "kg" is od_kg; the root itself has the   *)
(* suffix ""), and carries its bound, its root, the weight with which it   *)
(* enters the root (the product of the split factors below it), whether it *)
(* is a leaf, the variable it was split from, and the hierarchy slots it   *)
(* was given.                                                              *)
(***************************************************************************)
V(var, part) == [var |-> var, part |-> part]

KG(i) == [level |-> "kernel_grid", idx |-> i]
TG(i) == [level |-> "tg_grid", idx |-> i]
Tensorized == [level |-> "tensorized", idx |-> -1]

\* src_view.vvar_index, line 214: {mb, oc, od, oh, ow, kd, kh, kw}
vvar_index(var) ==
    CASE var = "mb" -> 0 [] var = "oc" -> 1 [] var = "od" -> 2
      [] var = "oh" -> 3 [] var = "ow" -> 4 [] var = "kd" -> 5
      [] var = "kh" -> 6 [] var = "kw" -> 7

OutVars == {"mb", "oc", "od", "oh", "ow"}
WinVars == {"kd", "kh", "kw"}

\* set_vdim, lines 215-222, and schedule.set_view, lines 254-255
RootVar(var, bound) ==
    [bound |-> bound, root |-> var, w |-> 1, leaf |-> TRUE, slots |-> <<>>,
     parent |-> V("", "")]

views_schedule(d, kd) ==
    [v |-> [n \in {V(x, "") : x \in OutVars \cup WinVars} |->
               RootVar(n.var, IF n.var \in OutVars THEN d[vvar_index(n.var)]
                              ELSE kd[vvar_index(n.var)])],
     binds |-> <<>>]

var_bound(S, n) == S.v[n].bound

\* schedule.split(n, factor, outer, inner): inner over factor, outer over
\* ceil(bound / factor)
split(S, n, factor, outer, inner) ==
    LET o == [bound |-> div_up(S.v[n].bound, factor), root |-> S.v[n].root,
              w |-> S.v[n].w * factor, leaf |-> TRUE, slots |-> <<>>,
              parent |-> n]
        i == [bound |-> factor, root |-> S.v[n].root,
              w |-> S.v[n].w, leaf |-> TRUE, slots |-> <<>>, parent |-> n]
    IN [S EXCEPT !.v = (outer :> o) @@ (inner :> i)
                          @@ [S.v EXCEPT ![n].leaf = FALSE]]

\* schedule.tensorize(n)
tensorize(S, n) == [S EXCEPT !.v[n].slots = Append(@, Tensorized)]

\* schedule.bind(n, slot)
bind(S, n, slot) ==
    [S EXCEPT !.v[n].slots = Append(@, slot),
              !.binds = Append(@, [slot |-> slot, vars |-> <<n>>])]

SeqRange(q) == {q[j] : j \in 1..Len(q)}

\* schedule.bind(schedule.fuse(vars), slot): the fused index is bound to the
\* slot and every variable of vars is a part of it
fuse_bind(S, fvars, slot) ==
    [S EXCEPT !.v = [n \in DOMAIN S.v |->
                        IF n \in SeqRange(fvars)
                        THEN [S.v[n] EXCEPT !.slots = Append(@, slot)]
                        ELSE S.v[n]],
              !.binds = Append(@, [slot |-> slot, vars |-> fvars])]

\* mutant: a single variable is left unbound
kg_bind_fused_only(S, fuse, idx) ==
    IF Len(fuse) > 1 THEN fuse_bind(S, fuse, KG(idx - 2)) ELSE S

\* lines 257-262
kg_bind(S, fuse, idx) ==
    IF Len(fuse) > 1 THEN fuse_bind(S, fuse, KG(idx - 2))
    ELSE IF Len(fuse) = 1 THEN bind(S, fuse[1], KG(idx - 2))
    ELSE S

\* lines 294-325: the axis s0 and the compaction with its sibling s1
odhw_s0(S, s1, s0, s1_fuse) ==
    LET s0_idx == vvar_index(s0)
        s0_tlg_unroll == lg[s0_idx]
        s0_unroll == s0_tlg_unroll * tg[s0_idx - 2]
        s0_full == s0_unroll * kg[s0_idx - 2]
        c == IF dims[s0_idx] > s0_full
             THEN \* part of kg[s0] is in kg[s1]
                  [S |-> split(S, V(s0, ""), s0_full, V(s0, "split"), V(s0, "ktlg")),
                   s1_fuse |-> Append(s1_fuse, V(s0, "split")),
                   s0_fuse |-> <<>>, s0 |-> V(s0, "ktlg")]
             ELSE IF dims[s0_idx] <= div_up(s0_full, 2)
             THEN \* part of kg[s1] is in kg[s0]
                  LET s1_ext == div_up(s0_full, dims[s0_idx])
                  IN [S |-> split(S, s1_fuse[1], s1_ext,
                                  V(s1, "ktlg"), V(s1, "split")),
                      s1_fuse |-> <<V(s1, "ktlg")>>,
                      s0_fuse |-> <<V(s1, "split")>>, s0 |-> V(s0, "")]
             ELSE [S |-> S, s1_fuse |-> s1_fuse, s0_fuse |-> <<>>, s0 |-> V(s0, "")]
        S1 == split(c.S, c.s0, s0_unroll, V(s0, "kg"), V(s0, "tlg"))
        S2 == split(S1, V(s0, "tlg"), s0_tlg_unroll, V(s0, "tg"), V(s0, "lg"))
        S3 == tensorize(S2, V(s0, "lg"))
        S4 == bind(S3, V(s0, "tg"), TG(s0_idx - 2))
    IN [S |-> S4, s1_fuse |-> c.s1_fuse, s0_fuse |-> Append(c.s0_fuse, V(s0, "kg"))]

\* lines 263-340; s0 = "" is the empty expr_t()
odhw_to_schedule(S, a1, an, s0) ==
    LET s0_idx == IF s0 = "" THEN -1 ELSE vvar_index(s0)
        need_swap == vvar_index(a1) >= 0 /\ vvar_index(a1) <= 1
        s1 == IF need_swap THEN an ELSE a1
        ns == IF need_swap THEN a1 ELSE an
        s1_idx == vvar_index(s1)
        ns_idx == vvar_index(ns)
        s1_tlg_unroll == lg[s1_idx]
        s1_unroll == s1_tlg_unroll * tg[s1_idx - 2]
        S1 == split(S, V(s1, ""), s1_unroll, V(s1, "kg"), V(s1, "tlg"))
        S2 == split(S1, V(s1, "tlg"), s1_tlg_unroll, V(s1, "tg"), V(s1, "lg"))
        S3 == tensorize(S2, V(s1, "lg"))
        S4 == bind(S3, V(s1, "tg"), TG(s1_idx - 2))
        r == IF s0_idx >= 0 THEN odhw_s0(S4, s1, s0, <<V(s1, "kg")>>)
             ELSE [S |-> S4, s1_fuse |-> <<V(s1, "kg")>>, s0_fuse |-> <<>>]
        ns_unroll == lg[ns_idx]
        S5 == split(r.S, V(ns, ""), ns_unroll, V(ns, "kg"), V(ns, "lg"))
        s1_fuse == IF need_swap THEN <<V(ns, "kg")>> \o r.s1_fuse
                   ELSE Append(r.s1_fuse, V(ns, "kg"))
        S6 == tensorize(S5, V(ns, "lg"))
        S7 == kg_bind(S6, r.s0_fuse, s0_idx)
    IN kg_bind(S7, s1_fuse, s1_idx)

\* lines 341-345
schedule_outputs(S) ==
    LET S1 == odhw_to_schedule(S, "oc", "od", "")
    IN IF mb_blocked \/ dims[0] < dims[1]
       THEN odhw_to_schedule(S1, "oh", "mb", "ow")
       ELSE odhw_to_schedule(S1, "mb", "oh", "ow")

\* mutant: a window axis is split by one more than the configured k_dim
kdhw_schedule_off(S, k) ==
    LET n == V(k, "")
        k_dim == lg[vvar_index(k)]
        how == kdhw_to_schedule(k_dim, var_bound(S, n))
    IN IF how = "tensorize" THEN tensorize(S, n)
       ELSE IF how = "split"
            THEN tensorize(split(S, n, k_dim + 1, V(k, "lg"), V(k, "tnz")),
                           V(k, "tnz"))
            ELSE S

\* lines 347-363 applied to the schedule (no change when the axis is in error)
kdhw_schedule(S, k) ==
    LET n == V(k, "")
        k_dim == lg[vvar_index(k)]
        how == kdhw_to_schedule(k_dim, var_bound(S, n))
    IN IF how = "tensorize" THEN tensorize(S, n)
       ELSE IF how = "split"
            THEN tensorize(split(S, n, k_dim, V(k, "lg"), V(k, "tnz")),
                           V(k, "tnz"))
            ELSE S

\* line 361 is reached for the axis k: k_dim > schedule.var_bound(k)
kdhw_error(S, k) ==
    kdhw_to_schedule(lg[vvar_index(k)], var_bound(S, V(k, ""))) = "error"

\* lines 364-366: the three calls in order.  The result is [s, err]: where
\* the assertions are compiled in (a) the first axis in error ends the
\* attempt with the schedule as the earlier axes left it; where they are
\* compiled out line 361 has no effect and the next axis follows
schedule_windows(S, a) ==
    LET S1 == kdhw_schedule(S, "kd")
        S2 == kdhw_schedule(S1, "kh")
        S3 == kdhw_schedule(S2, "kw")
    IN IF a /\ kdhw_error(S, "kd") THEN [s |-> S, err |-> TRUE]
       ELSE IF a /\ kdhw_error(S1, "kh") THEN [s |-> S1, err |-> TRUE]
       ELSE IF a /\ kdhw_error(S2, "kw") THEN [s |-> S2, err |-> TRUE]
       ELSE [s |-> S3, err |-> FALSE]

Leaves(S, var) == {n \in DOMAIN S.v : S.v[n].root = var /\ S.v[n].leaf}

\* the leaves schedule.expand(var, true, serial | kernel_grid | tg_grid),
\* lines 370-376, resolves to a coordinate: not the tensorized ones
ExpandedLeaves(S, var) == {n \in Leaves(S, var) : S.v[n].slots # <<Tensorized>>}

\* the values the expanded var takes over the threads of the grid
RECURSIVE CoordsOver(_, _)
CoordsOver(S, L) ==
    IF L = {} THEN {0}
    ELSE LET n == CHOOSE n \in L : TRUE
         IN {c + j * S.v[n].w : c \in CoordsOver(S, L \ {n}),
                                j \in 0..(S.v[n].bound - 1)}

Coords(S, var) == CoordsOver(S, ExpandedLeaves(S, var))

\* loop_bound_counter_t::count, lines 150-164, of the expanded var: every
\* variable replaced by its bound - 1
RECURSIVE CountOver(_, _)
CountOver(S, L) ==
    IF L = {} THEN 0
    ELSE LET n == CHOOSE n \in L : TRUE
         IN (var_bound(S, n) - 1) * S.v[n].w + CountOver(S, L \ {n})

count(S, var) == CountOver(S, ExpandedLeaves(S, var))

SpatialVar(x) == IF x = 2 THEN "od" ELSE IF x = 3 THEN "oh" ELSE "ow"

\* mutant: the guard is generated only when count exceeds the extent
needs_guard_gt(cnt, o) == cnt > o

\* lines 546-552: lbc.count(ow) >= conf.ow
needs_guard(cnt, o) == cnt >= o

\* lines 545-554: the axes of the exit condition
exit_cond(S, o) == {x \in 2..4 : needs_guard(count(S, SpatialVar(x)), o[x])}

\* line 554: if_t::make(exit_cond, stmt) for the thread at coord
exit_guard(S, o, coord) ==
    LET g == exit_cond(S, o)
    IN [coord |-> coord, guards |-> g,
        runs |-> \A x \in g : coord[x] < o[x]]

(***************************************************************************)
(* Initial states and specifications.                                      *)
(***************************************************************************)
NoOut == [pos |-> <<>>, path |-> "none", acc |-> 0, filter |-> 1, oob |-> {}]

PoolIdle ==
    /\ dtype = "f32"
    /\ ax = <<>>
    /\ out = NoOut

NoView == [dims |-> <<>>, pad_dims |-> <<>>, kind |-> "none", mask |-> 0]
NoMask == [orig |-> 0, kind |-> "none", cvt |-> <<>>, mask |-> 0]

ViewIdle ==
    /\ md = [dims |-> <<>>, padded_dims |-> <<>>]
    /\ cp_view = [tdims |-> <<>>, tmask |-> {}]
    /\ ndims_ = 3
    /\ view = NoView
    /\ nmask = NoMask

NoSchedule == [v |-> <<>>, binds |-> <<>>]
NoWork == [coord |-> <<>>, guards |-> {}, runs |-> FALSE]

SchedIdle ==
    /\ dims = [i \in 0..4 |-> 1]
    /\ conf_o = [x \in 2..4 |-> 1]
    /\ mb_blocked = FALSE
    /\ sched = NoSchedule
    /\ spc = "none"
    /\ work = NoWork

DriverIdleAt(s) ==
    /\ pc = "Done"
    /\ simd = s
    /\ kg = [i \in 0..2 |-> 1]
    /\ tg = [i \in 0..2 |-> 1]
    /\ kdims = [i \in 5..7 |-> 1]
    /\ ndims = <<5, 5>>
    /\ regs = 0
    /\ stmt = "kernel"
    /\ ndRange = nd_range(kg, tg, simd)
    /\ shrinkLog = <<>>
    /\ lastShrink = NoShrink
    /\ ir_assert_on = TRUE

DriverIdle == DriverIdleAt(2)

NoThread == [g |-> -1, mb |-> -1, ow |-> -1, branch |-> "none",
             written |-> "none", ran |-> "none"]

BatchIdle ==
    /\ alg = "max"
    /\ conf_mb = 1
    /\ dims0 = 1
    /\ thr = NoThread

BatchInit ==
    /\ DriverIdle
    /\ \E l0 \in 1..MaxTile :
          /\ lg = [i \in 0..7 |-> IF i = 0 THEN l0 ELSE IF i = 1 THEN simd ELSE 1]
          /\ conf_mb \in 1..MaxMb
          \* the padded extent: whole tiles, at most one tile of padding more
          /\ dims0 \in {d \in conf_mb..(conf_mb + 2 * l0) : d % l0 = 0}
    \* the padded and the true output width; od and oh have extent 1
    /\ \E cw \in 1..MaxOw, pw \in 0..MaxOutPad :
          /\ conf_o = [x \in 2..4 |-> IF x = 4 THEN cw ELSE 1]
          /\ dims = [i \in 0..4 |-> IF i = 0 THEN dims0
                                    ELSE IF i = 4 THEN cw + pw ELSE 1]
    /\ alg \in Algs
    /\ thr = NoThread
    /\ mb_blocked = FALSE /\ sched = NoSchedule /\ spc = "none" /\ work = NoWork
    /\ PoolIdle /\ ViewIdle

\* mutant: no exit guard around the batch guard
exit_pass_open(d, o, pos) == TRUE

\* lines 545-554: if_t::make(broadcast(exit_cond), stmt) around the batch
\* guard, without an else branch.  od, oh, ow have lg = tg = 1 here, so the
\* largest coordinate of axis x is dims[x] - 1 and the axis is guarded with
\* (x < conf.ox) when that reaches conf.ox; pos is the thread's coordinate
exit_pass(d, o, pos) ==
    \A x \in 2..4 : needs_guard(d[x] - 1, o[x]) => pos[x] < o[x]

\* one thread of the generated kernel: the exit guard (lines 545-554), inside
\* it the batch guard (lines 534-543), inside that the reduction body
RunThread ==
    /\ thr = NoThread
    /\ \E g \in 0..(mb_kg_bound(dims0, lg[0]) - 1), w \in 0..(dims[4] - 1) :
          LET mb == expand_mb(g, lg[0])
              pos == [x \in 2..4 |-> IF x = 4 THEN w ELSE 0]
              br == IF ~exit_pass(dims, conf_o, pos) THEN "exit"
                    ELSE batch_branch(dims0, conf_mb, mb)
          IN thr' = [g |-> g, mb |-> mb, ow |-> w, branch |-> br,
                     written |-> IF br = "exit" THEN "none"
                                 ELSE IF br = "stop" THEN "zero" ELSE "epilogue",
                     ran |-> IF br = "body" THEN alg ELSE "none"]
    /\ UNCHANGED <<driverVars, alg, conf_mb, dims0, poolVars, viewVars, schedVars>>

Init == DriverInit /\ BatchIdle /\ PoolIdle /\ ViewIdle /\ SchedIdle
Next == DriverNext /\ UNCHANGED <<batchVars, poolVars, viewVars, schedVars>>
Spec == Init /\ [][Next]_vars
\* build() is sequential code: a step that can be taken is taken
FairSpec == Spec /\ WF_vars(Next)
SpecBatch == BatchInit /\ [][RunThread]_vars



PoolInit ==
    /\ \E s \in SimdSet : DriverIdleAt(s)
    /\ lg = [i \in 0..7 |-> IF i = 1 THEN simd ELSE 1]
    /\ conf_mb = 1 /\ dims0 = 1 /\ thr = NoThread
    /\ alg \in Algs
    /\ dtype \in DTypes
    /\ \E cd \in AxisConfs(alg), ch \in SmallAxisConfs, cw \in SmallAxisConfs :
          ax = [x \in 2..4 |-> IF x = 2 THEN cd ELSE IF x = 3 THEN ch ELSE cw]
    /\ out = NoOut
    /\ ViewIdle /\ SchedIdle

SrcVals(t) == IF is_signed(t) THEN {-3, 2} ELSE {0, 2}
Garbage == {0, 7}

\* the generated body runs for one output position inside the output
\* extents; out is what the last lane of the tile computes
RunPosition ==
    /\ out = NoOut
    /\ \E pd \in 0..(ax[2].o - 1), ph \in 0..(ax[3].o - 1), pw \in 0..(ax[4].o - 1),
          v \in SrcVals(dtype), garbage \in Garbage, ord \in LoopOrders(ax) :
          out' = kernel_body(ax, alg, dtype, simd, simd - 1, ord,
                             [x \in 2..4 |-> IF x = 2 THEN pd ELSE IF x = 3 THEN ph
                                             ELSE pw],
                             v, garbage)
    /\ UNCHANGED <<driverVars, batchVars, dtype, ax, viewVars, schedVars>>

SpecPool == PoolInit /\ [][RunPosition]_vars

\* the descriptors of a post-op tensor: rank 3..5, extents 1 or 2, one axis
\* at most padded by one element
MdRanks == 3..cp_ndims
MdConfs ==
    UNION {{[dims |-> d,
             padded_dims |-> [k \in 0..(r - 1) |-> IF k = e THEN d[k] + 1 ELSE d[k]]] :
              d \in [0..(r - 1) -> {1, 2}], e \in -1..(r - 1)} : r \in MdRanks}

ViewInit ==
    /\ DriverIdle
    /\ lg = [i \in 0..7 |-> IF i = 1 THEN simd ELSE 1]
    /\ BatchIdle /\ PoolIdle /\ SchedIdle
    /\ md \in MdConfs
    /\ \E t \in {2, 3} : \E tm \in {{}, {0}, {1}, {4}, {2, 3}, 0..(cp_ndims - 1)} :
          cp_view = [tdims |-> [i \in 0..(cp_ndims - 1) |-> IF i = 0 THEN 2 ELSE t],
                     tmask |-> tm]
    /\ ndims_ \in 3..MaxNdims
    /\ view = NoView
    /\ nmask = NoMask

\* the mapper alone: normalize_mask reads only ndims_ and the rank of cp_view
MaskInit ==
    /\ DriverIdle
    /\ lg = [i \in 0..7 |-> IF i = 1 THEN simd ELSE 1]
    /\ BatchIdle /\ PoolIdle /\ SchedIdle
    /\ md = [dims |-> <<>>, padded_dims |-> <<>>]
    /\ cp_view = [tdims |-> <<>>, tmask |-> {}]
    /\ ndims_ \in 1..MaxNdims
    /\ view = NoView
    /\ nmask = NoMask

\* create_view(const memory_desc_t &), lines 55-76
CreateView ==
    /\ view = NoView
    /\ \E kind \in Reductions : view' = create_view(md, ndims_, cp_view, kind)
    /\ UNCHANGED <<driverVars, batchVars, poolVars, md, cp_view, ndims_, nmask,
                   schedVars>>

\* create_view(type, mask), lines 51-53: the mask goes through normalize_mask
NormalizeMask ==
    /\ nmask = NoMask
    /\ \E m \in 0..(Pow2(2 + ndims_) - 1), kind \in Reductions :
          nmask' = normalize_mask(m, ndims_, kind)
    /\ UNCHANGED <<driverVars, batchVars, poolVars, md, cp_view, ndims_, view,
                   schedVars>>

SpecView == ViewInit /\ [][CreateView]_vars
SpecMask == MaskInit /\ [][NormalizeMask]_vars

\* the grids and padded extents of an attempt, per axis: d the padded extent
\* (dims), l the loop grid, t the thread-group grid, g the kernel grid
MbConfs == {[d |-> 1, l |-> 1], [d |-> 4, l |-> 2], [d |-> 3, l |-> 2]}
OcConf == [d |-> 2, l |-> 2]
OdConfs == {[d |-> 1, l |-> 1, t |-> 1], [d |-> 4, l |-> 2, t |-> 1],
            [d |-> 4, l |-> 1, t |-> 2], [d |-> 3, l |-> 2, t |-> 1]}
OhConfs == {[d |-> 1, l |-> 1, t |-> 1], [d |-> 4, l |-> 2, t |-> 1],
            [d |-> 3, l |-> 1, t |-> 2]}
\* dims > l*t*g, dims <= ceil(l*t*g / 2), and neither
OwConfs == {[d |-> 1, l |-> 1, t |-> 1, g |-> 1], [d |-> 8, l |-> 2, t |-> 1, g |-> 2],
            [d |-> 6, l |-> 2, t |-> 1, g |-> 2], [d |-> 2, l |-> 1, t |-> 1, g |-> 4],
            [d |-> 4, l |-> 2, t |-> 1, g |-> 2], [d |-> 3, l |-> 1, t |-> 2, g |-> 2]}
\* a window axis: k the extent (conf.kd), l its loop grid
KConfs == {[k |-> 1, l |-> 1], [k |-> 2, l |-> 2], [k |-> 2, l |-> 1],
           [k |-> 4, l |-> 2], [k |-> 3, l |-> 2], [k |-> 1, l |-> 2]}
KhwConfs == {[k |-> 1, l |-> 1], [k |-> 2, l |-> 1], [k |-> 1, l |-> 2]}

\* cfg and conf of one attempt
AttemptConfig(mbc, odc, ohc, owc, kdc, khwc) ==
    /\ pc = "Attempting"
    /\ simd = 2
    /\ dims = [i \in 0..4 |-> IF i = 0 THEN mbc.d ELSE IF i = 1 THEN OcConf.d
                               ELSE IF i = 2 THEN odc.d ELSE IF i = 3 THEN ohc.d
                               ELSE owc.d]
    /\ lg = [i \in 0..7 |-> IF i = 0 THEN mbc.l ELSE IF i = 1 THEN OcConf.l
                             ELSE IF i = 2 THEN odc.l ELSE IF i = 3 THEN ohc.l
                             ELSE IF i = 4 THEN owc.l ELSE IF i = 5 THEN kdc.l
                             ELSE khwc.l]
    /\ tg = [i \in 0..2 |-> IF i = 0 THEN odc.t ELSE IF i = 1 THEN ohc.t ELSE owc.t]
    /\ kg = [i \in 0..2 |->
                IF i = 0 THEN div_up(OcConf.d, OcConf.l) * div_up(odc.d, odc.l * odc.t)
                ELSE IF i = 1 THEN div_up(mbc.d, mbc.l) * div_up(ohc.d, ohc.l * ohc.t)
                ELSE owc.g]
    /\ kdims = [i \in 5..7 |-> IF i = 5 THEN kdc.k ELSE khwc.k]
    /\ ndims = <<5, 5>>
    /\ regs = 0
    /\ stmt = "empty"
    /\ ndRange = nd_range(kg, tg, simd)
    /\ shrinkLog = <<>>
    /\ lastShrink = NoShrink
    /\ alg = "max" /\ conf_mb = dims[0] /\ dims0 = dims[0] /\ thr = NoThread
    /\ PoolIdle /\ ViewIdle

\* try_build after the views are set, line 255
SchedInit ==
    /\ \E mbc \in MbConfs, odc \in OdConfs, ohc \in OhConfs, owc \in OwConfs,
          kdc \in KConfs, khwc \in KhwConfs :
          AttemptConfig(mbc, odc, ohc, owc, kdc, khwc)
    /\ conf_o = [x \in 2..4 |-> dims[x]]
    /\ ir_assert_on \in BOOLEAN
    /\ mb_blocked \in BOOLEAN
    /\ sched = views_schedule(dims, kdims)
    /\ spc = "views"
    /\ work = NoWork

\* lines 341-345
ScheduleOutputs ==
    /\ spc = "views"
    /\ sched' = schedule_outputs(sched)
    /\ spc' = "odhw"
    /\ UNCHANGED <<driverVars, batchVars, poolVars, viewVars,
                   dims, conf_o, mb_blocked, work>>

\* lines 364-368: the window axes, then schedule.finalize()
ScheduleWindows ==
    /\ spc = "odhw"
    /\ LET w == schedule_windows(sched, ir_assert_on)
       IN /\ sched' = w.s
          /\ spc' = IF w.err THEN "error" ELSE "final"
    /\ UNCHANGED <<driverVars, batchVars, poolVars, viewVars,
                   dims, conf_o, mb_blocked, work>>

SpecSched == SchedInit /\ [][ScheduleOutputs \/ ScheduleWindows]_vars

\* try_build after the views are set, for the exit guard: the true output
\* extents are the padded ones or up to MaxOutPad less
GuardInit ==
    /\ \E odc \in OdConfs, ohc \in OhConfs, owc \in OwConfs :
          AttemptConfig([d |-> 4, l |-> 2], odc, ohc, owc,
                        [k |-> 2, l |-> 2], [k |-> 1, l |-> 1])
    /\ \E pad \in [2..4 -> 0..MaxOutPad] :
          /\ \A x \in 2..4 : pad[x] < dims[x]
          /\ conf_o = [x \in 2..4 |-> dims[x] - pad[x]]
    /\ ir_assert_on = TRUE
    /\ mb_blocked \in BOOLEAN
    /\ sched = views_schedule(dims, kdims)
    /\ spc = "views"
    /\ work = NoWork

\* one thread of the grid reaches the exit guard, line 554
RunWorkItem ==
    /\ spc = "final" /\ work = NoWork
    /\ \E cd \in Coords(sched, "od"), ch \in Coords(sched, "oh"),
          cw \in Coords(sched, "ow") :
          work' = exit_guard(sched, conf_o,
                             [x \in 2..4 |-> IF x = 2 THEN cd ELSE IF x = 3 THEN ch
                                             ELSE cw])
    /\ UNCHANGED <<driverVars, batchVars, poolVars, viewVars,
                   dims, conf_o, mb_blocked, sched, spc>>

SpecGuard ==
    GuardInit /\ [][ScheduleOutputs \/ ScheduleWindows \/ RunWorkItem]_vars

(***************************************************************************)
(* Claims about the retry driver.                                          *)
(***************************************************************************)
DoneFeasible == pc = "Done" /\ stmt = "kernel" /\ regs <= ExecRegs

\* C1: whatever the grid and whatever the register estimates of the attempts,
\* build() whose attempts all yield a feasibility outcome (no configuration
\* error) terminates: it returns a program within the register budget or
\* stops in the fatal "minimal loop_grid too large" error.
C1_Terminates ==
    ConfigError(lg, kdims, ndims, simd, dtype, alg) \/ <>(DoneFeasible \/ pc = "Fatal")

\* the same where the assertions are compiled in: the fatal error ends build()
TerminatesWithAssertions ==
    ~ir_assert_on \/ ConfigError(lg, kdims, ndims, simd, dtype, alg)
        \/ <>(DoneFeasible \/ pc = "Fatal")

\* build() at the minimal grid after an attempt over the budget, in a build
\* whose assertions are compiled out: the retry that changes nothing
RetryAtMinimum ==
    /\ ~ir_assert_on /\ pc = "Infeasible"
    /\ lg[0] = 1 /\ lg[1] = simd /\ Len(shrinkLog) >= 2

\* C2: an attempt returns the empty result exactly when the register estimate
\* is strictly greater than the budget, and the finished program otherwise.
C2_EmptyIffOverBudget ==
    /\ stmt \in {"empty", "kernel"}
    /\ pc = "Infeasible" => stmt = "empty" /\ regs > ExecRegs
    /\ pc = "Done" => stmt = "kernel" /\ regs <= ExecRegs

C2_Witness == pc = "Done" /\ regs = ExecRegs

\* C3: after an Infeasible attempt the driver raises the fatal error only with
\* lg[0] = 1 and lg[1] = simd; in every other such state it shrinks.
C3_FatalOnlyAtMinimum ==
    [][pc = "Infeasible" =>
         /\ pc' = "Fatal" => lg[0] = 1 /\ lg[1] = simd
         /\ ~(lg[0] = 1 /\ lg[1] = simd) =>
               pc' = "Attempting" /\ Len(shrinkLog') = Len(shrinkLog) + 1]_vars

C3_Witness == pc = "Fatal" /\ Len(shrinkLog) >= 2 /\ lg[0] = 1 /\ lg[1] = simd

\* C4 as stated: only an empty attempt result makes build() shrink and
\* retry; every attempt with a configuration error (rank mismatch, a window
\* axis whose loop-grid extent exceeds its bound) ends build() at once: no
\* shrink, no further attempt, no program.
C4_Original ==
    [][/\ (pc = "Attempting" /\ ConfigError(lg, kdims, ndims, simd, dtype, alg)) =>
             pc' = "Aborted" /\ UNCHANGED <<lg, kg, ndRange, stmt, shrinkLog>>
       /\ pc' = "Aborted" => stmt' = "empty" /\ shrinkLog' = <<>>
       /\ pc = "Aborted" => pc' = "Aborted"
       /\ shrinkLog' # shrinkLog =>
             pc = "Infeasible" /\ stmt = "empty" /\ regs > ExecRegs]_vars

\* in a build with the assertions compiled in, a configuration error in an
\* attempt ends build() at once: no shrink, no further attempt, no program;
\* and in both builds only an empty attempt result is followed by a shrink
AbortsWithAssertions ==
    [][/\ (pc = "Attempting" /\ ConfigError(lg, kdims, ndims, simd, dtype, alg) /\ ir_assert_on) =>
             pc' = "Aborted" /\ UNCHANGED <<lg, kg, ndRange, stmt, shrinkLog>>
       /\ pc' = "Aborted" => stmt' = "empty" /\ shrinkLog' = <<>>
       /\ pc = "Aborted" => pc' = "Aborted"
       /\ shrinkLog' # shrinkLog =>
             pc = "Infeasible" /\ stmt = "empty" /\ regs > ExecRegs]_vars

\* an attempt with a window axis in error went on to a program
ErrorIgnored ==
    /\ pc = "Done" /\ stmt = "kernel" /\ ~ir_assert_on
    /\ \E k \in 5..7 : kdhw_to_schedule(lg[k], kdims[k]) = "error"

C4_Witness == pc = "Aborted" /\ ~RankMismatch(ndims) /\ lg[0] > 1

\* C5: a retry that starts with lg[0] > 1 shrinks lg[0] into kg[1] and leaves
\* lg[1] and kg[0] alone; lg[1] is shrunk only from lg[0] <= 1; so every
\* shrink of lg[0] comes before every shrink of lg[1].
C5_ShrinkOrder ==
    [][shrinkLog' # shrinkLog =>
         /\ lg[0] > 1 => /\ lg'[0] < lg[0]
                         /\ kg'[1] > kg[1]
                         /\ lg'[1] = lg[1] /\ kg'[0] = kg[0]
         /\ lg'[1] # lg[1] => lg[0] <= 1
         /\ \A i, j \in 1..Len(shrinkLog') :
               i < j => shrinkLog'[i] <= shrinkLog'[j]]_vars

C5_Witness ==
    /\ Len(shrinkLog) >= 3
    /\ shrinkLog[1] = 0
    /\ shrinkLog[Len(shrinkLog)] = 1

\* the smallest factor > 1 of n (n >= 2): its smallest prime factor
SmallestPrimeFactor(n) ==
    CHOOSE d \in 2..n : n % d = 0 /\ \A e \in 2..(d - 1) : n % e # 0

ListedPrimes == {Primes[j] : j \in 1..Len(Primes)}

\* the loop-grid axis a, its kernel-grid axis b: p peeled from lg[a] into kg[b]
Peeled(a, b, p) ==
    /\ lg'[a] = lg[a] \div p /\ lg[a] % p = 0
    /\ kg'[b] = kg[b] * p
    /\ \A i \in 0..7 : i # a => lg'[i] = lg[i]
    /\ \A i \in 0..2 : i # b => kg'[i] = kg[i]

ShrunkAxis == shrinkLog'[Len(shrinkLog')]

\* C6 as stated: each retry divides one loop-grid axis by that axis's smallest
\* prime factor p and multiplies its kernel-grid axis by p.
C6_Original ==
    [][shrinkLog' # shrinkLog =>
         IF ShrunkAxis = 0
         THEN Peeled(0, 1, SmallestPrimeFactor(lg[0]))
         ELSE Peeled(1, 0, SmallestPrimeFactor(lg[1]))]_vars

\* C6 amended: with scale = 1 for lg[0] and scale = simd for lg[1], and
\* q = lg[a] / scale, a retry peels the smallest prime factor p of q when that
\* is one of the listed primes 2..31 (lg[a] / p, kg[b] * p), and otherwise moves
\* the whole of q (lg[a] = scale, kg[b] * q).
C6_PeelsSmallestListedPrime ==
    [][shrinkLog' # shrinkLog =>
         LET a == ShrunkAxis
             b == 1 - a
             scale == IF a = 0 THEN 1 ELSE simd
             q == lg[a] \div scale
         IN /\ lg[a] % scale = 0 /\ q >= 2
            /\ IF \E p \in ListedPrimes : q % p = 0
               THEN Peeled(a, b, SmallestPrimeFactor(q))
               ELSE Peeled(a, b, q) /\ lg'[a] = scale]_vars

C6_Witness ==
    /\ lastShrink.axis = 1
    /\ lastShrink.dn = 3 * lastShrink.scale
    /\ lg[1] = simd

\* C7 as stated, for the threads inside the output extents: with
\* dims[0] > conf.mb every batch iteration with index >= conf.mb gets a zero
\* write and never runs the reduction body.
C7_Original ==
    (thr # NoThread /\ dims0 > conf_mb /\ thr.ow < conf_o[4]) =>
        \A b \in Tile(thr.mb, lg[0]) :
            b >= conf_mb => thr.written = "zero" /\ thr.ran = "none"

\* C7 amended: with dims[0] > conf.mb, a thread whose output position lies
\* outside the true output extents writes nothing and runs nothing; a thread
\* inside them whose tile starts (kernel-grid index * lg[0]) at a batch index
\* >= conf.mb does the zero write and never runs the reduction body; a thread
\* inside them whose tile starts below conf.mb runs the body of the
\* algorithm variant and its epilogue for all lg[0] batch indices of the
\* tile, those >= conf.mb included.
C7_GuardPerTile ==
    (thr # NoThread /\ dims0 > conf_mb) =>
        /\ thr.mb = thr.g * lg[0]
        /\ thr.ow >= conf_o[4] => thr.written = "none" /\ thr.ran = "none"
        /\ (thr.ow < conf_o[4] /\ thr.mb >= conf_mb) =>
              thr.written = "zero" /\ thr.ran = "none"
        /\ (thr.ow < conf_o[4] /\ thr.mb < conf_mb) =>
              thr.written = "epilogue" /\ thr.ran = alg

C7_Witness ==
    /\ thr # NoThread /\ dims0 > conf_mb /\ lg[0] > 1
    /\ dims[4] > conf_o[4] /\ thr.ow < conf_o[4]
    /\ thr.mb >= conf_mb /\ thr.written = "zero"
    /\ alg = "avg_exclude_padding"

\* a thread outside the output extents, with a tile of padding batch indices
OutsideThread ==
    /\ thr # NoThread /\ dims0 > conf_mb
    /\ thr.ow >= conf_o[4] /\ thr.mb >= conf_mb /\ thr.written = "none"

\* a tile that starts below conf.mb and holds a batch index >= conf.mb
StraddlingTile ==
    /\ thr # NoThread /\ dims0 > conf_mb /\ thr.ow < conf_o[4]
    /\ thr.mb < conf_mb /\ thr.mb + lg[0] - 1 >= conf_mb /\ thr.ran = alg

\* a shrink step of build(): from an Infeasible attempt back to Attempting
ShrinkTaken ==
    pc = "Infeasible" /\ pc' = "Attempting" /\ shrink_choice(lg, simd) # "fatal"

\* C11: at the start of every attempt that follows a shrink the dispatch size
\* is that of the current grid: local = (tg[0]*simd, tg[1], tg[2]) and
\* global[i] = kg[i]*local[i], with kg as the shrink has just updated it.
C11_DispatchMatchesGrid ==
    (pc = "Attempting" /\ lastShrink # NoShrink) =>
        /\ ndRange.local[0] = tg[0] * simd
        /\ ndRange.local[1] = tg[1]
        /\ ndRange.local[2] = tg[2]
        /\ \A i \in 0..2 : ndRange.global[i] = kg[i] * ndRange.local[i]
        /\ LET b == 1 - lastShrink.axis
           IN kg[b] > lastShrink.up

C11_Witness ==
    /\ pc = "Attempting" /\ lastShrink.axis = 1 /\ tg[0] = 2
    /\ kg[0] = 2 * lastShrink.up
    /\ ndRange.global[0] = kg[0] * 2 * simd

LoopGridProduct(l) == l[0] * l[1] * l[2] * l[3] * l[4] * l[5] * l[6] * l[7]

\* C14: every shrink step strictly decreases the product of the loop-grid
\* components: the shrunk axis becomes strictly smaller and no other loop-grid
\* component grows.
C14_ShrinkDecreasesProduct ==
    [][ShrinkTaken =>
         /\ LoopGridProduct(lg') < LoopGridProduct(lg)
         /\ \E a \in 0..1 : /\ lg'[a] < lg[a]
                            /\ \A i \in 0..7 : i # a => lg'[i] <= lg[i]]_vars

C14_Witness ==
    /\ pc = "Attempting" /\ lastShrink.axis = 0 /\ lastShrink.dn = 37
    /\ lg[0] = 1

\* C15: from a grid with lg[0] >= 1 and lg[1] a positive multiple of simd,
\* after any number of shrinks lg[1] >= simd, lg[1] is a multiple of simd and
\* lg[0] >= 1.
C15_VecAxisStaysMultiple ==
    /\ lg[1] >= simd
    /\ lg[1] % simd = 0
    /\ lg[0] >= 1

C15_Witness ==
    /\ Len(shrinkLog) >= 2 /\ lastShrink.axis = 1
    /\ lastShrink.dn = 4 * simd /\ lg[1] = 2 * simd

\* the frame of a shrink and of an attempt: the thread-group grid, kg[2],
\* lg[2..7] and simd are left alone, and an attempt changes no grid at all
GridFrame ==
    /\ ShrinkTaken => /\ tg' = tg /\ simd' = simd /\ kg'[2] = kg[2]
                      /\ \A i \in 2..7 : lg'[i] = lg[i]
    /\ pc = "Attempting" => UNCHANGED <<lg, kg, tg, simd>>

\* C20: every shrink preserves the covered extent of the axis it touches:
\* from a grid with lg[0] >= 1 and lg[1] >= simd a shrink of the first axis
\* keeps lg[0]*kg[1] and a shrink of the vectorized axis keeps lg[1]*kg[0];
\* the thread-group grid, kg[2], lg[2..7] and simd are never changed, and an
\* attempt changes no grid.
C20_ExtentPreserved ==
    [][/\ (ShrinkTaken /\ lg[0] >= 1 /\ lg[1] >= simd) =>
             /\ lg'[0] * kg'[1] = lg[0] * kg[1]
             /\ lg'[1] * kg'[0] = lg[1] * kg[0]
       /\ GridFrame]_vars

C20_Witness ==
    /\ pc = "Attempting" /\ lastShrink.axis = 1
    /\ lastShrink.dn = 3 * lastShrink.scale
    /\ lg[1] * kg[0] = lastShrink.dn * lastShrink.up
    /\ tg[2] = 3

(***************************************************************************)
(* Claims about the generated body.                                        *)
(***************************************************************************)
\* the most negative value of a source type
MostNegative(t) ==
    IF t = "f32" THEN NegInf
    ELSE IF t = "s32" THEN -2147483647 - 1
    ELSE IF t = "s16" THEN -32768
    ELSE IF t = "s8" THEN -128
    ELSE 0

\* the window taps whose source coordinate lies inside the input on every axis
InRangeTaps(a, pos) ==
    {tp \in Taps(a) :
        \A x \in 2..4 : LET c == tdim(pos[x], tp[x], a[x]) IN c >= 0 /\ c < a[x].i}

Ran == out # NoOut

\* C8: for max pooling an output position whose whole window is masked out
\* yields the most negative value of the source type.
C8_MaskedMaxIsLowest ==
    (Ran /\ alg = "max" /\ InRangeTaps(ax, out.pos) = {}) =>
        out.acc = MostNegative(dtype)

\* C9: for the padding-exclusive average with boundary checks active the
\* divisor at an output position is the number of window taps whose source
\* coordinate o*stride - pad + k*(1+dilation) lies inside the input.
C9_DivisorIsOverlap ==
    (Ran /\ alg = "avg_exclude_padding" /\ check_idhw(ax) /\ out.path = "reduce") =>
        out.filter = Cardinality(InRangeTaps(ax, out.pos))

\* C10: for both averages the divisor applied to the accumulator is positive
\* (never zero, never negative) at every output position inside the output
\* extents.
C10_DivisorPositive ==
    (Ran /\ alg # "max" /\ out.path = "reduce") => out.filter > 0

\* the identity of the reduction in the source type
ReductionIdentity(t, al) == IF al = "max" THEN MostNegative(t) ELSE 0

\* C16: with a spatial boundary check active, every value consumed from the
\* read buffer for an out-of-range source coordinate is the reduction
\* identity, for every window size and algorithm variant.
C16_MaskedLanesHoldIdentity ==
    (Ran /\ check_idhw(ax)) =>
        \A x \in out.oob : x = ReductionIdentity(dtype, alg)

(***************************************************************************)
(* Claims about the post-op view mapper.                                   *)
(***************************************************************************)
CanonicalAxes == 0..(cp_ndims - 1)

\* C12: in the view create_view(md) returns, bit i of the bounds-check mask is
\* set exactly when the extent of canonical axis i is not 1 and (its padded
\* extent differs from the extent of the main view's layout on axis i, or the
\* main view has a mask on axis i); an axis of extent 1 never has its bit
\* set, whatever the main view's mask.
C12_MaskBitIffCheckedAxis ==
    view # NoView =>
        /\ view.mask < Pow2(cp_ndims)
        /\ \A i \in CanonicalAxes :
              /\ has_bit(view.mask, i) <=>
                    (view.dims[i] # 1 /\ (view.pad_dims[i] # cp_view.tdims[i]
                                           \/ i \in cp_view.tmask))
              /\ view.dims[i] = 1 => ~has_bit(view.mask, i)

C12_Witness ==
    /\ view # NoView
    /\ view.dims[4] = 1 /\ 4 \in cp_view.tmask /\ ~has_bit(view.mask, 4)
    /\ view.dims[1] = 2 /\ view.pad_dims[1] = 3 /\ has_bit(view.mask, 1)
    /\ Rank(md.dims) = 3

\* the mask of the two trailing axes of n
TwoTrailing(n) == Pow2(n - 1) + Pow2(n - 2)

\* the selected pre-reduction axes that fall on canonical axis i
SelectedOnto(i) ==
    {k \in 0..(2 + ndims_ - 1) :
        has_bit(nmask.orig, k) /\ to_3d(k, 2 + ndims_, nmask.kind) = i}

\* the returned mask selects exactly the canonical axes whose dummy extent,
\* after the reduction, equals the sentinel
SelectsSentinelAxes ==
    /\ nmask.mask < Pow2(cp_ndims)
    /\ \A i \in CanonicalAxes :
          /\ has_bit(nmask.mask, i) <=> nmask.cvt[i] = mask_set_value
          /\ nmask.cvt[i] = ProductOver(dummy_dims(nmask.orig, 2 + ndims_),
                                        {k \in 0..(2 + ndims_ - 1) :
                                            to_3d(k, 2 + ndims_, nmask.kind) = i})

\* C13 as stated: the returned mask selects exactly the canonical axes whose
\* reduced dummy extent equals the sentinel, and for a 5-D logical shape a
\* mask on the two trailing pre-reduction axes maps to the single trailing
\* canonical axis.
C13_Original ==
    nmask # NoMask =>
        /\ SelectsSentinelAxes
        /\ ((ndims_ = 3 \/ ndims_ = 5) /\ nmask.orig = TwoTrailing(2 + ndims_)) =>
              nmask.mask = Pow2(cp_ndims - 1)

\* C13 amended: the returned mask selects exactly the canonical axes whose
\* reduced dummy extent equals the sentinel, which are the canonical axes on
\* which exactly one selected pre-reduction axis falls; a mask on the two
\* trailing pre-reduction axes selects two canonical axes when they stay
\* apart (always so for 5 pre-reduction axes: canonical axes 3 and 4) and no
\* axis when they collapse into one, whose extent 4 is not the sentinel.
C13_SelectsSingleSentinelAxes ==
    nmask # NoMask =>
        /\ SelectsSentinelAxes
        /\ \A i \in CanonicalAxes :
              has_bit(nmask.mask, i) <=> Cardinality(SelectedOnto(i)) = 1
        /\ nmask.orig = TwoTrailing(2 + ndims_) =>
              LET n == 2 + ndims_
                  a == to_3d(n - 2, n, nmask.kind)
                  b == to_3d(n - 1, n, nmask.kind)
              IN /\ a # b => nmask.mask = Pow2(a) + Pow2(b)
                 /\ a = b => nmask.mask = 0
                 /\ n = cp_ndims => nmask.mask = Pow2(3) + Pow2(4)

C13_Witness ==
    /\ nmask # NoMask /\ ndims_ = 3
    /\ nmask.orig = TwoTrailing(5)
    /\ nmask.mask = 24

(***************************************************************************)
(* Claims about the schedule and the exit guard.                           *)
(***************************************************************************)
SetMax(A) == CHOOSE a \in A : \A b \in A : b <= a

\* C17: the body is guarded by 'coordinate < true output extent' over exactly
\* the spatial axes whose largest per-thread coordinate (every schedule
\* variable at bound - 1) is >= the true extent; so every thread that
\* executes the body has od < OD, oh < OH, ow < OW, and the coordinate of an
\* axis without a guard never reaches its extent.
C17_ExitGuard ==
    work # NoWork =>
        /\ \A x \in 2..4 :
              /\ x \in work.guards <=>
                    SetMax(Coords(sched, SpatialVar(x))) >= conf_o[x]
              /\ x \notin work.guards =>
                    \A c \in Coords(sched, SpatialVar(x)) : c < conf_o[x]
        /\ work.runs <=> \A x \in work.guards : work.coord[x] < conf_o[x]
        /\ work.runs => \A x \in 2..4 : work.coord[x] < conf_o[x]

C17_Witness ==
    /\ work # NoWork /\ work.runs
    /\ work.guards = {2, 4}
    /\ work.coord[4] > 0
    /\ V("ow", "split") \in DOMAIN sched.v

Slots == {KG(i) : i \in 0..2} \cup {TG(i) : i \in 0..2}

BindingsOf(slot) == {j \in 1..Len(sched.binds) : sched.binds[j].slot = slot}

\* C18: after the split/fuse/bind/tensorize sequence for mb, oc, od, oh, ow
\* and before finalize, every leaf derived from these axes is in exactly one
\* hierarchy slot (a part of one fused kernel-grid binding, one thread-group
\* axis, or tensorized), and every kernel-grid and thread-group axis
\* receives at most one binding.
C18_EveryLeafOneSlot ==
    spc \in {"odhw", "final"} =>
        /\ \A var \in OutVars : \A n \in Leaves(sched, var) :
              /\ Len(sched.v[n].slots) = 1
              /\ sched.v[n].slots[1] \in Slots \cup {Tensorized}
              /\ sched.v[n].slots[1] \in Slots =>
                    Cardinality({j \in BindingsOf(sched.v[n].slots[1]) :
                                    n \in SeqRange(sched.binds[j].vars)}) = 1
        /\ \A n \in DOMAIN sched.v : ~sched.v[n].leaf => sched.v[n].slots = <<>>
        /\ \A slot \in Slots : Cardinality(BindingsOf(slot)) <= 1

C18_Witness ==
    /\ spc = "odhw"
    /\ ~(mb_blocked \/ dims[0] < dims[1])
    /\ V("oh", "split") \in DOMAIN sched.v
    /\ sched.v[V("oh", "split")].slots = <<KG(2)>>
    /\ sched.v[V("mb", "kg")].slots = <<KG(1)>>

RECURSIVE BoundProduct(_, _)
BoundProduct(S, L) ==
    IF L = {} THEN 1
    ELSE LET n == CHOOSE n \in L : TRUE
         IN S.v[n].bound * BoundProduct(S, L \ {n})

LeafProduct(var) == BoundProduct(sched, Leaves(sched, var))

OriginalBound(var) ==
    IF var \in OutVars THEN dims[vvar_index(var)] ELSE kdims[vvar_index(var)]

\* the grids fit the padded extents: every factor try_build splits by
\* divides the bound it splits (lines 283-285, 300-320, 329-331, 352-356)
GridFitsExtents ==
    LET s0_unroll == lg[4] * tg[2]
        s0_full == s0_unroll * kg[2]
        s1_unroll == lg[3] * tg[1]
    IN /\ dims[0] % lg[0] = 0
       /\ dims[1] % lg[1] = 0
       /\ dims[2] % (lg[2] * tg[0]) = 0
       /\ dims[3] % s1_unroll = 0
       /\ IF dims[4] > s0_full THEN dims[4] % s0_full = 0
          ELSE dims[4] % s0_unroll = 0
       /\ dims[4] <= div_up(s0_full, 2) =>
             (dims[3] \div s1_unroll) % div_up(s0_full, dims[4]) = 0
       /\ \A k \in 5..7 : kdims[k] % lg[k] = 0

\* the product of the leaf bounds of a variable as stated without the
\* condition on the grids
ProductAlwaysExact ==
    spc = "final" => \A var \in OutVars \cup WinVars :
                        LeafProduct(var) = OriginalBound(var)

SplitIntoSibling ==
    /\ spc = "final" /\ GridFitsExtents
    /\ V("ow", "split") \in DOMAIN sched.v
    /\ LeafProduct("ow") = dims[4]

\* a split that does not divide: the product is the bound rounded up
RoundedUp ==
    /\ spc = "final" /\ ~GridFitsExtents
    /\ \E var \in OutVars \cup WinVars : LeafProduct(var) > OriginalBound(var)


====
